---- MODULE Spec2Model ----
(***************************************************************************)
(* A model of the places-search tool: the query-variation generator        *)
(* (variation_determination.py), the paginated search client and the       *)
(* variation-driven aggregator (google_places_api.py), the interactive     *)
(* loop (main.py) and the result writer (FileManager).                     *)
(*                                                                         *)
(* Strings are sequences of one-character strings, so that the Python      *)
(* string operations the code relies on (lower, strip, split, title,       *)
(* substring containment, slicing) are computed rather than assumed.       *)
(***************************************************************************)
EXTENDS Integers, Sequences, FiniteSets, TLC

VARIABLES
    \* the generator, called on its own
    base_query,       \* the query handed to the generator / to the search
    max_variations,   \* generate_search_variations' second argument
    gen_pc,           \* position of the generator run: "off", "ready", "generated", "located"
    gen_out,          \* list returned by VariationDetermination.generate_search_variations
    gen_location,     \* string returned by VariationDetermination._extract_location
    set_attributes,   \* the attributes setattr gave the instance after __init__: name -> value
    gen_before,       \* << list >> the same call returned before add_custom_industry, else <<>>
    \* configuration
    MAX_RESULTS,      \* config.MAX_RESULTS, the global result cap
    catalogue,        \* which pages the upstream serves in this run: "short" or "long"
    \* the caller
    mode,             \* "simple": search_places, "enhanced": search_with_variations
    pc,               \* control position of the search, "off" when none runs
    returned,         \* the list the call returned, once pc = "done"
    \* locals of the running search_places / search_places_single
    query,
    all_results,
    next_page_token,
    page_count,
    \* locals of search_with_variations
    variations,
    i,
    swv_all_results,
    seen_names,
    \* what the upstream saw and answered during the running paginated search
    requests,         \* the pageToken of every request issued, in order (<<>>: none sent)
    received,         \* the place records of the successful responses, in order
    last_status,      \* outcome of the latest request: "none" before the first
    queried,          \* the queries search_with_variations handed to search_places_single
    \* the interactive loop of main.py and the FileManager
    main_pc,          \* "off" when no session runs, else the step the loop is at
    line,             \* the line input() returned last
    keyword,
    choice,
    results_found,    \* `results`, the list the search returned
    file_path,        \* what save_results_to_file returned: <<>> is None
    report,           \* the message printed last
    raised,           \* <<>>, or << exception, step >> raised by the step just taken
    now,              \* the local clock, in seconds
    files,            \* the results folder: path -> content
    last_search,      \* the search started last: <<>> before the first
    save_log          \* the calls of save_results_to_file, in order

custom_vars == << set_attributes, gen_before >>

gen_vars == << base_query, max_variations, gen_pc, gen_out, gen_location, custom_vars >>

\* add_custom_industry was not called
CustomIdle ==
    /\ set_attributes = <<>>
    /\ gen_before = <<>>

page_vars == << query, all_results, next_page_token, page_count >>

swv_vars == << variations, i, swv_all_results, seen_names, queried >>

upstream_vars == << requests, received, last_status >>

main_vars ==
    << main_pc, line, keyword, choice, results_found, file_path, report, raised,
       now, files, last_search, save_log >>

vars ==
    << gen_vars, MAX_RESULTS, catalogue, mode, pc, returned, page_vars, swv_vars,
       upstream_vars, main_vars >>

\* no interactive session runs
MainIdle ==
    /\ main_pc = "off"
    /\ line = <<>>
    /\ keyword = <<>>
    /\ choice = <<>>
    /\ results_found = <<>>
    /\ file_path = <<>>
    /\ report = "none"
    /\ raised = <<>>
    /\ now = 0
    /\ files = <<>>
    /\ last_search = <<>>
    /\ save_log = <<>>

----------------------------------------------------------------------------
(* Python string primitives *)

UpperLetters == <<"A","B","C","D","E","F","G","H","I","J","K","L","M","N","O","P","Q","R","S","T","U","V","W","X","Y","Z">>

LowerLetters == <<"a","b","c","d","e","f","g","h","i","j","k","l","m","n","o","p","q","r","s","t","u","v","w","x","y","z">>

Whitespace == {" ", "\t", "\n", "\r"}

Range(f) == {f[k] : k \in DOMAIN f}

\* str.isupper() of a one-character string
isupper(c) == \E k \in 1..26 : UpperLetters[k] = c

\* str.islower() of a one-character string
islower(c) == \E k \in 1..26 : LowerLetters[k] = c

lower_char(c) ==
    IF isupper(c) THEN LowerLetters[CHOOSE k \in 1..26 : UpperLetters[k] = c] ELSE c

upper_char(c) ==
    IF islower(c) THEN UpperLetters[CHOOSE k \in 1..26 : LowerLetters[k] = c] ELSE c

\* str.lower()
lower(s) == [k \in 1..Len(s) |-> lower_char(s[k])]

\* str.title(): a cased character is upper-cased when the character before it
\* is not cased (or there is none), lower-cased otherwise
title(s) ==
    [k \in 1..Len(s) |->
        IF k > 1 /\ (isupper(s[k-1]) \/ islower(s[k-1]))
        THEN lower_char(s[k])
        ELSE upper_char(s[k])]

RECURSIVE lstrip(_)
lstrip(s) == IF s # <<>> /\ Head(s) \in Whitespace THEN lstrip(Tail(s)) ELSE s

RECURSIVE rstrip(_)
rstrip(s) ==
    IF s # <<>> /\ s[Len(s)] \in Whitespace THEN rstrip(SubSeq(s, 1, Len(s) - 1)) ELSE s

\* str.strip()
strip(s) == rstrip(lstrip(s))

RECURSIVE split_acc(_, _, _)
split_acc(s, cur, out) ==
    IF s = <<>>
    THEN IF cur = <<>> THEN out ELSE Append(out, cur)
    ELSE IF Head(s) \in Whitespace
         THEN split_acc(Tail(s), <<>>, IF cur = <<>> THEN out ELSE Append(out, cur))
         ELSE split_acc(Tail(s), Append(cur, Head(s)), out)

\* str.split() with no argument: the maximal runs of non-whitespace
split(s) == split_acc(s, <<>>, <<>>)

\* `sub in s` for strings
contains(sub, s) ==
    \E k \in 0..(Len(s) - Len(sub)) : SubSeq(s, k + 1, k + Len(sub)) = sub

\* str.endswith
endswith(s, suf) ==
    Len(suf) <= Len(s) /\ SubSeq(s, Len(s) - Len(suf) + 1, Len(s)) = suf

\* list[:n], Python slice semantics (a negative n counts from the end)
slice_to(xs, n) ==
    IF n >= 0
    THEN SubSeq(xs, 1, IF n < Len(xs) THEN n ELSE Len(xs))
    ELSE SubSeq(xs, 1, IF Len(xs) + n > 0 THEN Len(xs) + n ELSE 0)

RECURSIVE unique_in_order_acc(_, _)
unique_in_order_acc(xs, unique) ==
    IF xs = <<>>
    THEN unique
    ELSE unique_in_order_acc(
            Tail(xs),
            IF Head(xs) \in Range(unique) THEN unique ELSE Append(unique, Head(xs)))

\* for x in xs: if x not in unique: unique.append(x)
unique_in_order(xs) == unique_in_order_acc(xs, <<>>)

\* any(keyword in text for keyword in keywords)
any_keyword_in(keywords, text) ==
    \E k \in 1..Len(keywords) : contains(keywords[k], text)

----------------------------------------------------------------------------
(* VariationDetermination (variation_determination.py) *)

\* getattr(self, name): what setattr stored last, else what __init__ stored
attribute(name, initial) ==
    IF name \in DOMAIN set_attributes THEN set_attributes[name] ELSE initial

initial_textile_mill_terms == <<
    <<"t","e","x","t","i","l","e"," ","m","i","l","l">>,
    <<"c","o","t","t","o","n"," ","m","i","l","l">>,
    <<"y","a","r","n"," ","m","i","l","l">>,
    <<"s","p","i","n","n","i","n","g"," ","m","i","l","l">>,
    <<"f","a","b","r","i","c"," ","m","i","l","l">>,
    <<"w","e","a","v","i","n","g"," ","m","i","l","l">>,
    <<"s","p","i","n","n","i","n","g"," ","f","a","c","t","o","r","y">>,
    <<"t","e","x","t","i","l","e"," ","f","a","c","t","o","r","y">>,
    <<"c","o","t","t","o","n"," ","s","p","i","n","n","i","n","g">>,
    <<"y","a","r","n"," ","m","a","n","u","f","a","c","t","u","r","i","n","g">> >>

initial_restaurant_terms == <<
    <<"r","e","s","t","a","u","r","a","n","t">>,
    <<"c","a","f","e">>,
    <<"d","i","n","e","r">>,
    <<"b","i","s","t","r","o">>,
    <<"e","a","t","e","r","y">>,
    <<"f","o","o","d"," ","p","l","a","c","e">> >>

initial_retail_terms == <<
    <<"s","t","o","r","e">>,
    <<"s","h","o","p">>,
    <<"r","e","t","a","i","l">>,
    <<"o","u","t","l","e","t">>,
    <<"m","a","r","k","e","t">>,
    <<"b","a","z","a","a","r">> >>

textile_mill_terms == attribute(<<"t","e","x","t","i","l","e","_","m","i","l","l","_","t","e","r","m","s">>, initial_textile_mill_terms)

restaurant_terms == attribute(<<"r","e","s","t","a","u","r","a","n","t","_","t","e","r","m","s">>, initial_restaurant_terms)

retail_terms == attribute(<<"r","e","t","a","i","l","_","t","e","r","m","s">>, initial_retail_terms)

textile_keywords == <<
    <<"s","p","i","n","n","i","n","g">>,
    <<"m","i","l","l">>,
    <<"t","e","x","t","i","l","e">>,
    <<"c","o","t","t","o","n">>,
    <<"y","a","r","n">>,
    <<"f","a","b","r","i","c">>,
    <<"w","e","a","v","i","n","g">> >>

restaurant_keywords == <<
    <<"r","e","s","t","a","u","r","a","n","t">>,
    <<"c","a","f","e">>,
    <<"f","o","o","d">>,
    <<"d","i","n","i","n","g">>,
    <<"k","i","t","c","h","e","n">>,
    <<"e","a","t","e","r","y">> >>

retail_keywords == <<
    <<"s","t","o","r","e">>,
    <<"s","h","o","p">>,
    <<"r","e","t","a","i","l">>,
    <<"m","a","r","k","e","t">>,
    <<"o","u","t","l","e","t">>,
    <<"b","a","z","a","a","r">> >>

business_suffixes == <<
    <<"b","u","s","i","n","e","s","s">>,
    <<"c","o","m","p","a","n","y">>,
    <<"s","h","o","p">>,
    <<"s","e","r","v","i","c","e">>,
    <<"c","e","n","t","e","r">> >>

\* the indicator list with the two-word indicators ahead of the words they end in
location_keywords_longest_first == <<
    <<"i","n","d","u","s","t","r","i","a","l"," ","a","r","e","a">>,
    <<"b","u","s","i","n","e","s","s"," ","d","i","s","t","r","i","c","t">>,
    <<"d","o","w","n","t","o","w","n">>,
    <<"c","i","t","y"," ","c","e","n","t","e","r">>,
    <<"c","e","n","t","e","r">>,
    <<"d","i","s","t","r","i","c","t">>,
    <<"a","r","e","a">>,
    <<"z","o","n","e">>,
    <<"m","a","l","l">>,
    <<"p","l","a","z","a">>,
    <<"s","q","u","a","r","e">>,
    <<"m","a","r","k","e","t">>,
    <<"u","p","t","o","w","n">>,
    <<"m","i","d","t","o","w","n">>,
    <<"s","u","b","u","r","b">>,
    <<"n","e","i","g","h","b","o","r","h","o","o","d">>,
    <<"q","u","a","r","t","e","r","s">>,
    <<"s","e","c","t","o","r">> >>

location_keywords == <<
    <<"d","o","w","n","t","o","w","n">>,
    <<"c","i","t","y"," ","c","e","n","t","e","r">>,
    <<"c","e","n","t","e","r">>,
    <<"d","i","s","t","r","i","c","t">>,
    <<"a","r","e","a">>,
    <<"z","o","n","e">>,
    <<"m","a","l","l">>,
    <<"p","l","a","z","a">>,
    <<"s","q","u","a","r","e">>,
    <<"m","a","r","k","e","t">>,
    <<"i","n","d","u","s","t","r","i","a","l"," ","a","r","e","a">>,
    <<"b","u","s","i","n","e","s","s"," ","d","i","s","t","r","i","c","t">>,
    <<"u","p","t","o","w","n">>,
    <<"m","i","d","t","o","w","n">>,
    <<"s","u","b","u","r","b">>,
    <<"n","e","i","g","h","b","o","r","h","o","o","d">>,
    <<"q","u","a","r","t","e","r","s">>,
    <<"s","e","c","t","o","r">> >>

business_words == <<
    <<"m","i","l","l">>,
    <<"f","a","c","t","o","r","y">>,
    <<"c","o","m","p","a","n","y">>,
    <<"b","u","s","i","n","e","s","s">>,
    <<"s","h","o","p">>,
    <<"s","t","o","r","e">>,
    <<"r","e","s","t","a","u","r","a","n","t">>,
    <<"c","a","f","e">>,
    <<"s","e","r","v","i","c","e">>,
    <<"c","e","n","t","e","r">>,
    <<"i","n","d","u","s","t","r","y">>,
    <<"m","a","n","u","f","a","c","t","u","r","i","n","g">>,
    <<"t","e","x","t","i","l","e">>,
    <<"c","o","t","t","o","n">>,
    <<"s","p","i","n","n","i","n","g">>,
    <<"f","a","b","r","i","c">> >>

_is_textile_industry(q) == any_keyword_in(textile_keywords, lower(q))

_is_restaurant_industry(q) == any_keyword_in(restaurant_keywords, lower(q))

_is_retail_industry(q) == any_keyword_in(retail_keywords, lower(q))

\* location_candidates without the business-word exclusion
location_candidates_no_exclusion(q) ==
    LET original_words == split(q)
    IN  { k \in 1..Len(original_words) :
            Len(original_words[k]) > 2 /\ isupper(original_words[k][1]) }

\* the capitalized-word fallback of _extract_location: the words that pass
\* the three tests, by position
location_candidates(q) ==
    LET words == split(strip(lower(q)))
        original_words == split(q)
    IN  { k \in 1..Len(words) :
            /\ k <= Len(original_words)
            /\ Len(original_words[k]) > 2
            /\ isupper(original_words[k][1])
            /\ words[k] \notin Range(business_words) }

_extract_location(q) ==
    LET query_lower == strip(lower(q))
        hits == { k \in 1..Len(location_keywords) :
                    contains(location_keywords[k], query_lower) }
        original_words == split(q)
        cands == location_candidates(q)
    IN  IF hits # {}
        THEN <<" ">> \o title(location_keywords[CHOOSE k \in hits : \A j \in hits : k <= j])
        ELSE IF cands # {}
             THEN <<" ">> \o original_words[CHOOSE k \in cands : \A j \in cands : k <= j]
             ELSE <<>>

\* [f"{term}{location}" for term in terms]
terms_with_location(terms, location) ==
    [k \in 1..Len(terms) |-> terms[k] \o location]

_generate_textile_variations(base) ==
    terms_with_location(textile_mill_terms, _extract_location(base))

_generate_restaurant_variations(base) ==
    terms_with_location(restaurant_terms, _extract_location(base))

_generate_retail_variations(base) ==
    terms_with_location(retail_terms, _extract_location(base))

\* _generate_general_variations appending the plural unconditionally
_generate_general_variations_always_plural(base) ==
    << base \o <<"s">> >>
    \o [k \in 1..Len(business_suffixes) |-> base \o <<" ">> \o business_suffixes[k]]

_generate_general_variations(base) ==
    (IF ~endswith(base, <<"s">>) THEN << base \o <<"s">> >> ELSE <<>>)
    \o [k \in 1..Len(business_suffixes) |-> base \o <<" ">> \o business_suffixes[k]]

RECURSIVE remove_duplicates_acc(_, _, _)
remove_duplicates_acc(variation_list, seen, unique_variations) ==
    IF variation_list = <<>>
    THEN unique_variations
    ELSE LET variation == Head(variation_list)
             variation_lower == strip(lower(variation))
         IN  IF variation_lower \notin seen
             THEN remove_duplicates_acc(Tail(variation_list), seen \cup {variation_lower},
                                        Append(unique_variations, variation))
             ELSE remove_duplicates_acc(Tail(variation_list), seen, unique_variations)

\* _remove_duplicates comparing the entries as they are
_remove_duplicates_exact(variation_list) == unique_in_order(variation_list)

_remove_duplicates(variation_list) == remove_duplicates_acc(variation_list, {}, <<>>)

\* the if/elif chain with the restaurant test ahead of the textile test
industry_variations_restaurant_first(base) ==
    IF _is_restaurant_industry(base) THEN _generate_restaurant_variations(base)
    ELSE IF _is_textile_industry(base) THEN _generate_textile_variations(base)
    ELSE IF _is_retail_industry(base) THEN _generate_retail_variations(base)
    ELSE _generate_general_variations(base)

\* the if/elif chain of generate_search_variations
industry_variations(base) ==
    IF _is_textile_industry(base) THEN _generate_textile_variations(base)
    ELSE IF _is_restaurant_industry(base) THEN _generate_restaurant_variations(base)
    ELSE IF _is_retail_industry(base) THEN _generate_retail_variations(base)
    ELSE _generate_general_variations(base)

\* default of the max_variations parameter
DefaultMaxVariations == 6

\* generate_search_variations returning the whole de-duplicated list
generate_search_variations_uncapped(base, maxv) ==
    _remove_duplicates(<<base>> \o industry_variations(base))

generate_search_variations(base, maxv) ==
    slice_to(_remove_duplicates(<<base>> \o industry_variations(base)), maxv)

----------------------------------------------------------------------------
(* GooglePlacesAPI.generate_search_variations (google_places_api.py): the  *)
(* generator search_with_variations calls                                  *)

api_mill_terms == <<
    <<"t","e","x","t","i","l","e"," ","m","i","l","l">>,
    <<"c","o","t","t","o","n"," ","m","i","l","l">>,
    <<"y","a","r","n"," ","m","i","l","l">>,
    <<"s","p","i","n","n","i","n","g"," ","m","i","l","l">>,
    <<"f","a","b","r","i","c"," ","m","i","l","l">>,
    <<"w","e","a","v","i","n","g"," ","m","i","l","l">>,
    <<"s","p","i","n","n","i","n","g"," ","f","a","c","t","o","r","y">>,
    <<"t","e","x","t","i","l","e"," ","f","a","c","t","o","r","y">>,
    <<"c","o","t","t","o","n"," ","s","p","i","n","n","i","n","g">>,
    <<"y","a","r","n"," ","m","a","n","u","f","a","c","t","u","r","i","n","g">> >>

\* the number of searches the aggregator's generator allows
ApiMaxSearches == 6

api_location(base) ==
    IF contains(<<"p","a","k","i","s","t","a","n">>, lower(base)) THEN <<" ","P","a","k","i","s","t","a","n">>
    ELSE IF contains(<<"k","a","r","a","c","h","i">>, lower(base)) THEN <<" ","K","a","r","a","c","h","i">>
    ELSE IF contains(<<"l","a","h","o","r","e">>, lower(base)) THEN <<" ","L","a","h","o","r","e">>
    ELSE <<>>

api_generate_search_variations(base) ==
    LET candidates ==
            <<base>> \o
            IF \/ contains(<<"s","p","i","n","n","i","n","g">>, lower(base))
               \/ contains(<<"m","i","l","l">>, lower(base))
            THEN terms_with_location(api_mill_terms, api_location(base))
            ELSE (IF ~endswith(base, <<"s">>) THEN << base \o <<"s">> >> ELSE <<>>)
                 \o << base \o <<" ","b","u","s","i","n","e","s","s">>,
                       base \o <<" ","c","o","m","p","a","n","y">>,
                       base \o <<" ","s","h","o","p">> >>
    IN  slice_to(unique_in_order(candidates), ApiMaxSearches)

----------------------------------------------------------------------------
(* The upstream: place records and responses *)

\* the default of the three .get(..., 'N/A')
NotAvailable == <<"N","/","A">>

\* a place record of the response: each key may be absent (<<>>);
\* displayName, when present, holds an object whose text may be absent
Place(name, address, rating) ==
    [displayName |-> << <<name>> >>, formattedAddress |-> <<address>>, rating |-> <<rating>>]

place_A == Place(<<"A","b">>, <<"x">>, <<"4">>)
\* the same place as place_A up to case and surrounding blanks
place_A_variant == Place(<<" ","a","B"," ">>, <<"X"," ">>, <<"4">>)
\* the name of place_A at another address
place_A_elsewhere == Place(<<"a","b">>, <<"y">>, <<"3">>)
place_B == Place(<<"b">>, <<"x">>, <<"5">>)
place_C == Place(<<"c">>, <<"z">>, <<"2">>)
place_D == Place(<<"d">>, <<"z">>, <<"1">>)
\* a record with no key at all
place_bare == [displayName |-> <<>>, formattedAddress |-> <<>>, rating |-> <<>>]
\* a record whose displayName has no text and whose address reads "n/a"
place_no_text == [displayName |-> << <<>> >>, formattedAddress |-> << <<"n","/","a">> >>, rating |-> <<>>]

\* length of the smaller of the two long pages the upstream may send
BigPageLen == 30

big_page(n) ==
    LET pool == << place_C, place_A, place_B, place_D, place_A_elsewhere >>
    IN  [k \in 1..n |-> pool[((k - 1) % Len(pool)) + 1]]

Pages == {
    <<>>,
    << place_D >>,
    << place_A, place_A_variant, place_A_elsewhere >>,
    << place_B, place_A_variant, place_bare, place_no_text >>,
    big_page(BigPageLen),
    big_page(BigPageLen + 1) }

\* an upstream with many places to serve sends long pages only
LongPages == { big_page(BigPageLen), big_page(BigPageLen + 1) }

CataloguePages == [short |-> Pages, long |-> LongPages]

FailureStatuses == {"http_error", "transport_error", "bad_json"}

\* the continuation token the upstream hands out with its k-th page
TokenOfPage == <<"t1", "t2", "t3", "t4", "t5", "t6", "t7", "t8">>

\* what the upstream may answer to the k-th request of a search
UpstreamResponses(k) ==
    { [status |-> st, places |-> <<>>, nextPageToken |-> <<>>] : st \in FailureStatuses }
    \cup { [status |-> "ok", places |-> pg, nextPageToken |-> tok] :
             pg \in CataloguePages[catalogue], tok \in { <<>>, <<"">>, <<TokenOfPage[k]>> } }

----------------------------------------------------------------------------
(* search_places and search_places_single (google_places_api.py) *)

\* max_pages of search_places
SearchPlacesMaxPages == 8
\* max_pages of search_places_single
SingleMaxPages == 3
\* the per-variation result cap of search_places_single
SingleMaxResults == 60

\* `if next_page_token:` -- None and "" are false
truthy(token) == token # <<>> /\ token[1] # ""

place_info(place) ==
    [ name    |-> IF place.displayName = <<>> \/ place.displayName[1] = <<>>
                  THEN NotAvailable ELSE place.displayName[1][1],
      address |-> IF place.formattedAddress = <<>>
                  THEN NotAvailable ELSE place.formattedAddress[1],
      rating  |-> IF place.rating = <<>> THEN NotAvailable ELSE place.rating[1] ]

RECURSIVE append_places_uncapped(_, _, _)
\* the page loop without its cap test
append_places_uncapped(results, places, cap) ==
    IF places = <<>>
    THEN results
    ELSE append_places_uncapped(Append(results, place_info(Head(places))), Tail(places), cap)

RECURSIVE append_places(_, _, _)
\* for place in places: if len(all_results) >= cap: break; all_results.append(place_info)
append_places(results, places, cap) ==
    IF places = <<>> \/ Len(results) >= cap
    THEN results
    ELSE append_places(Append(results, place_info(Head(places))), Tail(places), cap)

\* the while condition without its page limit
loop_condition_unpaged(n, pages, cap, max_pages) == n < cap

\* while len(all_results) < cap and page_count < max_pages
loop_condition(n, pages, cap, max_pages) == n < cap /\ pages < max_pages

\* a failed page that throws the accumulated results away
results_after_failure_discarded(results) == <<>>

\* a failed page breaks out of the loop; all_results is what it was
results_after_failure(results) == results

\* a fresh call frame of a paginated search
BeginSearch(q) ==
    /\ query' = q
    /\ all_results' = <<>>
    /\ next_page_token' = <<>>
    /\ page_count' = 0
    /\ requests' = <<>>
    /\ received' = <<>>
    /\ last_status' = "none"

\* the pageToken parameter of a request: sent only when a token is held
request_page_token_never(token) == <<>>

request_page_token(token) == IF truthy(token) THEN token ELSE <<>>

\* one iteration of the while loop: the request, the response, its processing
FetchPage(loop_pc, sleep_pc, ret_pc, cap, max_pages) ==
    /\ pc = loop_pc
    /\ loop_condition(Len(all_results), page_count, cap, max_pages)
    /\ page_count' = page_count + 1
    /\ requests' = Append(requests, request_page_token(next_page_token))
    /\ \E resp \in UpstreamResponses(page_count + 1) :
          /\ last_status' = resp.status
          /\ IF resp.status # "ok"
             THEN /\ all_results' = results_after_failure(all_results)
                  /\ UNCHANGED << next_page_token, received >>
                  /\ pc' = ret_pc
             ELSE /\ all_results' = append_places(all_results, resp.places, cap)
                  /\ received' = received \o resp.places
                  /\ next_page_token' = resp.nextPageToken
                  /\ pc' = IF ~truthy(resp.nextPageToken) THEN ret_pc
                           ELSE IF Len(all_results') < cap THEN sleep_pc
                           ELSE loop_pc
    /\ UNCHANGED << main_vars, gen_vars, MAX_RESULTS, catalogue, mode, returned, query, swv_vars >>

\* time.sleep(2) before the next iteration
PageDelay(sleep_pc, loop_pc) ==
    /\ pc = sleep_pc
    /\ pc' = loop_pc
    /\ UNCHANGED << main_vars, gen_vars, MAX_RESULTS, catalogue, mode, returned, page_vars, swv_vars, upstream_vars >>

\* the loop is over: a break, or the while condition is false
LoopEnded(loop_pc, ret_pc, cap, max_pages) ==
    IF pc = loop_pc
    THEN ~loop_condition(Len(all_results), page_count, cap, max_pages)
    ELSE pc = ret_pc

SearchPlacesCall ==
    /\ pc = "start"
    /\ mode = "simple"
    /\ BeginSearch(base_query)
    /\ pc' = "sp_loop"
    /\ UNCHANGED << main_vars, gen_vars, MAX_RESULTS, catalogue, mode, returned, swv_vars >>

SearchPlacesFetch ==
    FetchPage("sp_loop", "sp_sleep", "sp_ret", MAX_RESULTS, SearchPlacesMaxPages)

SearchPlacesDelay == PageDelay("sp_sleep", "sp_loop")

SearchPlacesReturn ==
    /\ LoopEnded("sp_loop", "sp_ret", MAX_RESULTS, SearchPlacesMaxPages)
    /\ returned' = all_results
    /\ pc' = "done"
    /\ UNCHANGED << main_vars, gen_vars, MAX_RESULTS, catalogue, mode, page_vars, swv_vars, upstream_vars >>

----------------------------------------------------------------------------
(* search_with_variations (google_places_api.py) *)

unique_id_case_sensitive(result) ==
    result.name \o <<" ", "|", " ">> \o result.address

\* f"{result['name'].lower().strip()} | {result['address'].lower().strip()}"
unique_id(result) ==
    strip(lower(result.name)) \o <<" ", "|", " ">> \o strip(lower(result.address))

RECURSIVE merge_unique(_, _, _)
\* for result in variation_results: append it unless its unique_id was seen
merge_unique(results, seen, variation_results) ==
    IF variation_results = <<>>
    THEN [results |-> results, seen |-> seen]
    ELSE LET result == Head(variation_results)
         IN  IF unique_id(result) \notin seen
             THEN merge_unique(Append(results, result), seen \cup {unique_id(result)},
                               Tail(variation_results))
             ELSE merge_unique(results, seen, Tail(variation_results))

\* the aggregator returning everything it collected
swv_return_value_unsliced(results, cap) == results

\* return all_results[:MAX_RESULTS]
swv_return_value(results, cap) == slice_to(results, cap)

SearchWithVariationsCall ==
    /\ pc = "start"
    /\ mode = "enhanced"
    /\ variations' = api_generate_search_variations(base_query)
    /\ swv_all_results' = <<>>
    /\ seen_names' = {}
    /\ i' = 1
    /\ BeginSearch(variations'[1])
    /\ queried' = << variations'[1] >>
    /\ pc' = "sps_loop"
    /\ UNCHANGED << main_vars, gen_vars, MAX_RESULTS, catalogue, mode, returned >>

SearchPlacesSingleFetch ==
    FetchPage("sps_loop", "sps_sleep", "sps_ret", SingleMaxResults, SingleMaxPages)

SearchPlacesSingleDelay == PageDelay("sps_sleep", "sps_loop")

\* where the aggregator goes after merging the i-th of n variations: the
\* cap check and its break come first, the delay only when a variation follows
after_merge_delay_first(count, cap, idx, n) ==
    IF idx < n THEN "swv_sleep" ELSE "swv_ret"

after_merge(count, cap, idx, n) ==
    IF count >= cap THEN "swv_ret"
    ELSE IF idx < n THEN "swv_sleep"
    ELSE "swv_ret"

\* search_places_single returns; the rest of the aggregator's loop body
MergeVariationResults ==
    /\ LoopEnded("sps_loop", "sps_ret", SingleMaxResults, SingleMaxPages)
    /\ LET merged == merge_unique(swv_all_results, seen_names, all_results)
       IN  /\ swv_all_results' = merged.results
           /\ seen_names' = merged.seen
           /\ pc' = after_merge(Len(merged.results), MAX_RESULTS, i, Len(variations))
    /\ UNCHANGED << main_vars, gen_vars, MAX_RESULTS, catalogue, mode, returned, page_vars, upstream_vars,
                    variations, i, queried >>

\* time.sleep(1), then the next variation is searched
NextVariation ==
    /\ pc = "swv_sleep"
    /\ i' = i + 1
    /\ BeginSearch(variations[i + 1])
    /\ queried' = Append(queried, variations[i + 1])
    /\ pc' = "sps_loop"
    /\ UNCHANGED << main_vars, gen_vars, MAX_RESULTS, catalogue, mode, returned, variations, swv_all_results,
                    seen_names >>

SearchWithVariationsReturn ==
    /\ pc = "swv_ret"
    /\ returned' = swv_return_value(swv_all_results, MAX_RESULTS)
    /\ pc' = "done"
    /\ UNCHANGED << main_vars, gen_vars, MAX_RESULTS, catalogue, mode, page_vars, swv_vars, upstream_vars >>

----------------------------------------------------------------------------
(* The searches a caller starts *)

\* largest configured MAX_RESULTS of the runs against the short catalogue
MaxConfiguredResults == 3

\* the MAX_RESULTS the comments of search_places reckon with
DocumentedMaxResults == 150

\* a small cap with every kind of page, or the documented cap with long pages
Configurations ==
    { [MAX_RESULTS |-> c, catalogue |-> "short"] : c \in 1..MaxConfiguredResults }
    \cup { [MAX_RESULTS |-> DocumentedMaxResults, catalogue |-> "long"] }

SearchQueries == {
    <<"c","a","f","e">>,
    <<"s","p","i","n","n","i","n","g"," ","m","i","l","l"," ","P","a","k","i","s","t","a","n">> }

Init ==
    /\ base_query \in SearchQueries
    /\ max_variations = DefaultMaxVariations
    /\ gen_pc = "off"
    /\ gen_out = <<>>
    /\ gen_location = <<>>
    /\ CustomIdle
    /\ \E cfg \in Configurations :
          /\ MAX_RESULTS = cfg.MAX_RESULTS
          /\ catalogue = cfg.catalogue
    /\ mode \in {"simple", "enhanced"}
    /\ pc = "start"
    /\ returned = <<>>
    /\ query = <<>>
    /\ all_results = <<>>
    /\ next_page_token = <<>>
    /\ page_count = 0
    /\ variations = <<>>
    /\ i = 0
    /\ swv_all_results = <<>>
    /\ seen_names = {}
    /\ requests = <<>>
    /\ received = <<>>
    /\ last_status = "none"
    /\ queried = <<>>
    /\ MainIdle

Next ==
    \/ SearchPlacesCall
    \/ SearchPlacesFetch
    \/ SearchPlacesDelay
    \/ SearchPlacesReturn
    \/ SearchWithVariationsCall
    \/ SearchPlacesSingleFetch
    \/ SearchPlacesSingleDelay
    \/ MergeVariationResults
    \/ NextVariation
    \/ SearchWithVariationsReturn

Spec == Init /\ [][Next]_vars

----------------------------------------------------------------------------
(* Inputs of the generator runs *)

\* longest query, in words, handed to the generator
MaxWords == 2

\* largest and (negated) smallest max_variations tried
MaxVariationsArg == 7
MinVariationsArg == 2

Vocabulary == <<
    <<>>,
    <<"s","p","i","n","n","i","n","g">>,
    <<"m","i","l","l">>,
    <<"M","i","l","l">>,
    <<"C","h","i","c","a","g","o">>,
    <<"C","H","I","C","A","G","O">>,
    <<"c","a","f","e">>,
    <<"S","t","o","r","e">>,
    <<"d","o","w","n","t","o","w","n">>,
    <<"c","l","a","s","s">>,
    <<"N","Y">>,
    <<"T","e","x","t","i","l","e">> >>

\* the queries the documentation uses as examples
ExampleQueries == {
    <<"s","p","i","n","n","i","n","g"," ","m","i","l","l"," ","C","h","i","c","a","g","o">>,
    <<"t","e","x","t","i","l","e"," ","b","u","s","i","n","e","s","s">>,
    <<"s","p","i","n","n","i","n","g"," ","m","i","l","l"," ","P","a","k","i","s","t","a","n">>,
    <<"r","e","s","t","a","u","r","a","n","t"," ","d","o","w","n","t","o","w","n">>,
    <<"c","o","n","s","u","l","t","a","n","t">> }

\* a query that differs from a textile term in case and in surrounding blanks
\* and a query with a location indicator inside a longer word
EdgeQueries == {
    <<" ","T","e","x","t","i","l","e"," ","M","i","l","l"," ">>,
    \* "mall" occurs inside a word, not as a word
    <<"c","a","f","e"," ","S","m","a","l","l","v","i","l","l","e">>,
    \* three indicators, the first of the list not the first of the query
    <<"p","l","a","z","a"," ","i","n","d","u","s","t","r","i","a","l"," ","a","r","e","a">> }

RECURSIVE join(_)
\* " ".join(words)
join(words) ==
    IF words = <<>> THEN <<>>
    ELSE IF Len(words) = 1 THEN words[1]
    ELSE words[1] \o <<" ">> \o join(Tail(words))

Queries ==
    { join(ws) : ws \in UNION { [1..n -> Range(Vocabulary)] : n \in 0..MaxWords } }
    \cup ExampleQueries \cup EdgeQueries

search_vars ==
    << MAX_RESULTS, catalogue, mode, pc, returned, page_vars, swv_vars, upstream_vars >>

\* no search runs
SearchIdle ==
    /\ MAX_RESULTS = 1
    /\ catalogue = "short"
    /\ mode = "none"
    /\ pc = "off"
    /\ returned = <<>>
    /\ query = <<>>
    /\ all_results = <<>>
    /\ next_page_token = <<>>
    /\ page_count = 0
    /\ variations = <<>>
    /\ i = 0
    /\ swv_all_results = <<>>
    /\ seen_names = {}
    /\ requests = <<>>
    /\ received = <<>>
    /\ last_status = "none"
    /\ queried = <<>>

GenInit ==
    /\ base_query \in Queries
    /\ max_variations = DefaultMaxVariations
    /\ gen_pc = "ready"
    /\ gen_out = <<>>
    /\ gen_location = <<>>
    /\ CustomIdle
    /\ SearchIdle
    /\ MainIdle

\* a call generate_search_variations(base_query, max_variations)
Generate ==
    /\ gen_pc = "ready"
    /\ \E maxv \in (0 - MinVariationsArg)..MaxVariationsArg :
          /\ max_variations' = maxv
          /\ gen_out' = generate_search_variations(base_query, maxv)
    /\ gen_pc' = "generated"
    /\ UNCHANGED << base_query, gen_location, custom_vars >>
    /\ UNCHANGED << search_vars, main_vars >>

\* a call _extract_location(base_query)
ExtractLocation ==
    /\ gen_pc = "ready"
    /\ gen_location' = _extract_location(base_query)
    /\ gen_pc' = "located"
    /\ UNCHANGED << base_query, max_variations, gen_out, custom_vars >>
    /\ UNCHANGED << search_vars, main_vars >>

GenNext == Generate \/ ExtractLocation

SpecGen == GenInit /\ [][GenNext]_vars

----------------------------------------------------------------------------
(* add_custom_industry (variation_determination.py) between two calls of   *)
(* generate_search_variations                                              *)

\* the industry names handed to add_custom_industry
IndustryNames == { <<"a","u","t","o","m","o","t","i","v","e">>, <<"r","e","s","t","a","u","r","a","n","t">>, <<"r","e","t","a","i","l">>, <<"t","e","x","t","i","l","e","_","m","i","l","l">> }

\* keywords and terms of the documented example
CustomKeywords == << <<"c","a","r">>, <<"g","a","r","a","g","e">> >>
CustomTerms == << <<"a","u","t","o"," ","s","h","o","p">>, <<"g","a","r","a","g","e">> >>

\* the queries of the runs with a custom industry
CustomQueries == Range(Vocabulary) \cup ExampleQueries \cup { <<"c","a","r"," ","g","a","r","a","g","e">> }

\* add_custom_industry(industry_name, CustomKeywords, CustomTerms)
AddCustomIndustry ==
    /\ gen_pc = "generated"
    /\ set_attributes = <<>>
    /\ \E industry_name \in IndustryNames :
          set_attributes' = ((industry_name \o <<"_","t","e","r","m","s">>) :> CustomTerms)
                            @@ ((industry_name \o <<"_","k","e","y","w","o","r","d","s">>) :> CustomKeywords)
                            @@ set_attributes
    /\ gen_before' = << gen_out >>
    /\ gen_pc' = "customized"
    /\ UNCHANGED << base_query, max_variations, gen_out, gen_location >>
    /\ UNCHANGED << search_vars, main_vars >>

\* generate_search_variations(base_query, max_variations) called once more
GenerateAgain ==
    /\ gen_pc = "customized"
    /\ gen_out' = generate_search_variations(base_query, max_variations)
    /\ gen_pc' = "regenerated"
    /\ UNCHANGED << base_query, max_variations, gen_location, custom_vars >>
    /\ UNCHANGED << search_vars, main_vars >>

CustomInit ==
    /\ base_query \in CustomQueries
    /\ max_variations = DefaultMaxVariations
    /\ gen_pc = "ready"
    /\ gen_out = <<>>
    /\ gen_location = <<>>
    /\ CustomIdle
    /\ SearchIdle
    /\ MainIdle

CustomNext == Generate \/ AddCustomIndustry \/ GenerateAgain

SpecCustom == CustomInit /\ [][CustomNext]_vars

----------------------------------------------------------------------------
(* The interactive loop (main.py) and the FileManager                       *)
(* (apis/google_places/__init__.py)                                        *)

Digits == <<"0","1","2","3","4","5","6","7","8","9">>

\* str.isalnum() of a one-character string
isalnum(c) == isupper(c) \/ islower(c) \/ c \in Range(Digits)

keep_in_filename(c) == isalnum(c) \/ c \in {" ", "-", "_"}

\* str.replace(' ', '_')
replace_spaces(s) == [k \in 1..Len(s) |-> IF s[k] = " " THEN "_" ELSE s[k]]

safe_keyword(kw) == replace_spaces(rstrip(SelectSeq(kw, keep_in_filename)))

two_digits(n) == << Digits[(n \div 10) + 1], Digits[(n % 10) + 1] >>

\* the day the session runs on
Today == <<"2","0","2","6","1","1","0","3">>

\* datetime.now().strftime("%Y%m%d_%H%M%S") at second t of the day
strftime(t) ==
    Today \o <<"_">> \o two_digits((t \div 3600) % 24)
          \o two_digits((t \div 60) % 60) \o two_digits(t % 60)

\* a file name without the timestamp
filename_keyword_only(safe, stamp) == safe \o <<".","t","x","t">>

filename(safe, stamp) == safe \o <<"_">> \o stamp \o <<".","t","x","t">>

\* the configured RESULTS_FOLDER of the session
OutputFolder == <<"r","e","s","u","l","t","s">>

os_path_join(folder, name) == folder \o <<"/">> \o name

\* the path save_results_to_file writes at second t
filepath(kw, t) == os_path_join(OutputFolder, filename(safe_keyword(kw), strftime(t)))

\* what open(filepath, 'w') and the writes leave in the file
file_content(kw, found, complete) ==
    [ keyword  |-> kw,
      total    |-> Len(found),
      blocks   |-> IF complete THEN found ELSE <<>>,
      complete |-> complete ]

\* how a call of open and the writes may end
WriteOutcomes == {"written", "open_failed", "write_failed"}

\* a save that hands the path back whatever happened
save_return_always_path(outcome, path) == << path >>

\* the return value of save_results_to_file: the path, or None
save_return(outcome, path) == IF outcome = "written" THEN << path >> ELSE <<>>

QuitWords == { <<"q","u","i","t">>, <<"e","x","i","t">>, <<"q">> }

\* the quit test on the keyword as typed
is_quit_as_typed(kw) == kw \in QuitWords

is_quit(kw) == lower(kw) \in QuitWords

\* a loop with no try block: every raise ends the program
after_raise_uncaught(step) == "aborted"

\* where the loop is after a raise: the try block starts after the keyword prompt
after_raise(step) == IF step = "keyword_prompt" THEN "aborted" ELSE "keyword_prompt"

\* what is printed after a raise
handler_report(exc, step) ==
    IF step = "keyword_prompt" THEN "traceback"
    ELSE IF exc = "KeyboardInterrupt" THEN "cancelled"
    ELSE "error"

search_method(ch) == IF ch = <<"1">> THEN "search_places" ELSE "search_with_variations"

Raise(exc, step) ==
    /\ raised' = << exc, step >>
    /\ main_pc' = after_raise(step)
    /\ report' = handler_report(exc, step)

\* most calls of save_results_to_file in one session
MaxSaves == 2
\* last second of the clock
MaxClock == 1

\* lines typed at the keyword prompt
KeywordLines == {
    <<>>,
    <<" "," ">>,
    <<"q","u","i","t">>,
    <<" ","E","x","i","t"," ">>,
    <<"Q">>,
    <<"a"," ","b","!">>,
    <<"a","_","b">> }

\* lines typed at the mode prompt
ChoiceLines == { <<"1">>, <<" ","2"," ">>, <<"3">>, <<>> }

\* what input() may raise: Ctrl-C, or EOFError at the end of the input
InputExceptions == {"KeyboardInterrupt", "Exception"}

\* lists a search may return
SearchReturns == {
    <<>>,
    << place_info(place_A), place_info(place_B) >> }

SessionActive == main_pc \in {"keyword_prompt", "mode_prompt", "search", "save"}

\* keyword = input(...).strip(), the quit test and the empty test
KeywordPrompt ==
    /\ main_pc = "keyword_prompt"
    /\ \/ /\ \E exc \in InputExceptions : Raise(exc, "keyword_prompt")
          /\ UNCHANGED << line, keyword >>
       \/ \E ln \in KeywordLines :
             /\ line' = ln
             /\ keyword' = strip(ln)
             /\ raised' = <<>>
             /\ IF is_quit(strip(ln))
                THEN /\ report' = "goodbye"
                     /\ main_pc' = "exited"
                ELSE IF strip(ln) = <<>>
                THEN /\ report' = "invalid_keyword"
                     /\ main_pc' = "keyword_prompt"
                ELSE /\ Len(save_log) < MaxSaves
                     /\ report' = "mode_options"
                     /\ main_pc' = "mode_prompt"
    /\ UNCHANGED << choice, results_found, file_path, now, files, last_search, save_log >>
    /\ UNCHANGED << gen_vars, search_vars >>

\* one round of the inner loop: choice = input(...).strip()
ModePrompt ==
    /\ main_pc = "mode_prompt"
    /\ \/ /\ \E exc \in InputExceptions : Raise(exc, "mode_prompt")
          /\ UNCHANGED << line, choice >>
       \/ \E ln \in ChoiceLines :
             /\ line' = ln
             /\ choice' = strip(ln)
             /\ raised' = <<>>
             /\ IF strip(ln) \in { <<"1">>, <<"2">> }
                THEN /\ main_pc' = "search"
                     /\ UNCHANGED report
                ELSE /\ main_pc' = "mode_prompt"
                     /\ report' = "invalid_choice"
    /\ UNCHANGED << keyword, results_found, file_path, now, files, last_search, save_log >>
    /\ UNCHANGED << gen_vars, search_vars >>

\* results = places_api.search_places(keyword) or search_with_variations(keyword),
\* and the test for no results
Search ==
    /\ main_pc = "search"
    /\ last_search' = << [keyword |-> keyword, choice |-> choice,
                           method |-> search_method(choice)] >>
    /\ \/ /\ \E exc \in InputExceptions : Raise(exc, "search")
          /\ UNCHANGED results_found
       \/ \E found \in SearchReturns :
             /\ results_found' = found
             /\ raised' = <<>>
             /\ IF found = <<>>
                THEN /\ report' = "no_results"
                     /\ main_pc' = "keyword_prompt"
                ELSE /\ main_pc' = "save"
                     /\ UNCHANGED report
    /\ UNCHANGED << line, keyword, choice, file_path, now, files, save_log >>
    /\ UNCHANGED << gen_vars, search_vars >>

\* file_path = file_manager.save_results_to_file(keyword, results) and the
\* message that follows
SaveResults ==
    /\ main_pc = "save"
    /\ LET path == filepath(keyword, now)
       IN  \/ \E outcome \in WriteOutcomes :
                /\ files' = IF outcome = "open_failed" THEN files
                            ELSE (path :> file_content(keyword, results_found, outcome = "written"))
                                 @@ files
                /\ file_path' = save_return(outcome, path)
                /\ save_log' = Append(save_log,
                                      [keyword |-> keyword, found |-> results_found,
                                     path |-> path, at |-> now,
                                       outcome |-> outcome,
                                       returned |-> save_return(outcome, path)])
                /\ report' = IF save_return(outcome, path) # <<>> THEN "saved" ELSE "save_failed"
                /\ raised' = <<>>
                /\ main_pc' = "keyword_prompt"
           \/ \* Ctrl-C while the file is written
              /\ Raise("KeyboardInterrupt", "save")
              /\ files' = (path :> file_content(keyword, results_found, FALSE)) @@ files
              /\ save_log' = Append(save_log,
                                    [keyword |-> keyword, found |-> results_found,
                                     path |-> path, at |-> now,
                                     outcome |-> "interrupted", returned |-> <<>>])
              /\ UNCHANGED file_path
    /\ UNCHANGED << line, keyword, choice, results_found, now, last_search >>
    /\ UNCHANGED << gen_vars, search_vars >>

\* a second passes
Tick ==
    /\ SessionActive
    /\ now < MaxClock
    /\ now' = now + 1
    /\ UNCHANGED << main_pc, line, keyword, choice, results_found, file_path, report,
                    raised, files, last_search, save_log >>
    /\ UNCHANGED << gen_vars, search_vars >>

MainInit ==
    /\ base_query = <<>>
    /\ max_variations = DefaultMaxVariations
    /\ gen_pc = "off"
    /\ gen_out = <<>>
    /\ gen_location = <<>>
    /\ CustomIdle
    /\ SearchIdle
    /\ main_pc = "keyword_prompt"
    /\ line = <<>>
    /\ keyword = <<>>
    /\ choice = <<>>
    /\ results_found = <<>>
    /\ file_path = <<>>
    /\ report = "banner"
    /\ raised = <<>>
    /\ now = 0
    /\ files = <<>>
    /\ last_search = <<>>
    /\ save_log = <<>>

MainNext ==
    \/ KeywordPrompt
    \/ ModePrompt
    \/ Search
    \/ SaveResults
    \/ Tick

SpecMain == MainInit /\ [][MainNext]_vars

----------------------------------------------------------------------------
(* Properties of the paginated search and the aggregator, checked under Spec *)

\* the result cap and the page limit of the paginated search that runs
ActiveCap == IF mode = "simple" THEN MAX_RESULTS ELSE SingleMaxResults
ActiveMaxPages == IF mode = "simple" THEN SearchPlacesMaxPages ELSE SingleMaxPages

\* the records the successful pages of the running search carried, converted
ConvertedReceived == [k \in 1..Len(received) |-> place_info(received[k])]

\* the identity of C2: lowercased, trimmed name and lowercased, trimmed address
Identity(result) == << strip(lower(result.name)), strip(lower(result.address)) >>

NoTwoAlike(results) ==
    LET ids == [k \in 1..Len(results) |-> Identity(results[k])]
    IN  \A m, n \in 1..Len(results) : m # n => ids[m] # ids[n]

\* C1: the list search_with_variations returns has at most MAX_RESULTS entries.
C1_AggregatorCap ==
    (pc = "done" /\ mode = "enhanced") => Len(returned) <= MAX_RESULTS

\* the aggregator had collected more than the cap when it returned
C1_Witness ==
    /\ pc = "done"
    /\ mode = "enhanced"
    /\ Len(swv_all_results) > MAX_RESULTS
    /\ Len(returned) = MAX_RESULTS

\* the entries a merge appended are first occurrences, in discovery order
MergeKeepsFirst ==
    LET old == swv_all_results
        new == swv_all_results'
        added == SubSeq(new, Len(old) + 1, Len(new))
        ids == [k \in 1..Len(all_results) |-> Identity(all_results[k])]
        old_ids == { Identity(old[m]) : m \in 1..Len(old) }
        \* where an appended entry was discovered in the variation's results
        at(n) == CHOOSE k \in 1..Len(all_results) :
                    /\ all_results[k] = added[n]
                    /\ \A j \in 1..(k - 1) : all_results[j] # added[n]
    IN  /\ Len(new) >= Len(old)
        /\ SubSeq(new, 1, Len(old)) = old
        /\ \A n \in 1..Len(added) :
              /\ \E k \in 1..Len(all_results) : all_results[k] = added[n]
              /\ ids[at(n)] \notin old_ids
              /\ \A j \in 1..(at(n) - 1) : ids[j] # ids[at(n)]
              /\ n > 1 => at(n - 1) < at(n)

\* C2: the aggregator's list never holds two results alike in lowercased,
\* trimmed name and address, and of results alike the first discovered is kept.
C2_NoDuplicateIdentity ==
    /\ [](NoTwoAlike(swv_all_results) /\ (mode = "enhanced" => NoTwoAlike(returned)))
    /\ [][swv_all_results' # swv_all_results => MergeKeepsFirst]_vars
    /\ [][(mode = "enhanced" /\ pc' = "done") =>
            \E n \in 0..Len(swv_all_results) : returned' = SubSeq(swv_all_results, 1, n)]_vars

\* a later variation returned a place again, in another spelling, and it was dropped
C2_Witness ==
    /\ pc \in {"swv_sleep", "swv_ret"}
    /\ i >= 2
    /\ \E k \in 1..Len(all_results) :
          /\ all_results[k] \notin Range(swv_all_results)
          /\ \E m \in 1..Len(swv_all_results) :
                Identity(swv_all_results[m]) = Identity(all_results[k])

\* C3: a paginated search issues at most max_pages requests (8 for
\* search_places, 3 for search_places_single): every request raises the page
\* counter by one, and a request is issued only below the page limit.
C3_PageLimit ==
    /\ [](Len(requests) <= ActiveMaxPages /\ page_count = Len(requests))
    /\ [][Len(requests') > Len(requests) =>
            /\ page_count < ActiveMaxPages
            /\ page_count' = page_count + 1
            /\ Len(requests') = Len(requests) + 1]_vars

\* eight pages fetched, each with a continuation token, the cap never reached
C3_Witness ==
    /\ pc = "done"
    /\ mode = "simple"
    /\ Len(requests) = SearchPlacesMaxPages
    /\ \A k \in 2..Len(requests) : requests[k] # <<>>
    /\ truthy(next_page_token)
    /\ Len(returned) < MAX_RESULTS

\* C4: when a page fails, the search ends without another request and its
\* result is exactly what the pages before had accumulated.
C4_FailSoft ==
    last_status \in FailureStatuses =>
        /\ pc \notin {"sp_loop", "sp_sleep", "sps_loop", "sps_sleep"}
        /\ all_results = ConvertedReceived
        /\ (pc = "done" /\ mode = "simple") => returned = ConvertedReceived
        /\ Len(requests) = 1 => all_results = <<>>

\* a page after the first failed and the earlier results were returned
C4_Witness ==
    /\ pc = "done"
    /\ mode = "simple"
    /\ last_status \in FailureStatuses
    /\ Len(requests) >= 2
    /\ returned # <<>>

\* C5: the result list of a paginated search never exceeds its cap; a page
\* crossing the cap is cut and no request follows once the cap is reached.
C5_ResultCap ==
    /\ [](/\ Len(all_results) <= ActiveCap
          /\ all_results =
                SubSeq(ConvertedReceived, 1,
                       IF Len(received) < ActiveCap THEN Len(received) ELSE ActiveCap))
    /\ [][Len(requests') > Len(requests) => Len(all_results) < ActiveCap]_vars

\* a page of search_places_single was cut at 60 although more pages were on offer
C5_Witness ==
    /\ mode = "enhanced"
    /\ pc \in {"swv_sleep", "swv_ret"}
    /\ Len(all_results) = SingleMaxResults
    /\ Len(received) > SingleMaxResults
    /\ truthy(next_page_token)
    /\ Len(requests) < SingleMaxPages

\* C9: the queries search_with_variations searches are the list of
\* VariationDetermination.generate_search_variations(base_query), in order,
\* or a prefix of it when the cap ends the run early.
C9_QueriesOfVariationDetermination ==
    LET expected == generate_search_variations(base_query, DefaultMaxVariations)
    IN  /\ Len(queried) <= Len(expected)
        /\ queried = SubSeq(expected, 1, Len(queried))
        /\ (pc = "done" /\ mode = "enhanced" /\ Len(swv_all_results) < MAX_RESULTS)
              => queried = expected

----------------------------------------------------------------------------
(* Properties of the variation generator, checked under SpecGen *)

\* the identity the de-duplication compares: lowercased and trimmed
VariationKey(v) == strip(lower(v))

\* the list handed to _remove_duplicates by generate_search_variations
RawVariations == <<base_query>> \o industry_variations(base_query)

\* positions of a list that hold the first occurrence of their key
FirstOccurrences(raw) ==
    LET keys == [k \in 1..Len(raw) |-> VariationKey(raw[k])]
    IN  { k \in 1..Len(raw) : \A j \in 1..(k - 1) : keys[j] # keys[k] }

\* the n-th smallest element of a set of positions
NthOf(S, n) == CHOOSE k \in S : Cardinality({ j \in S : j <= k }) = n

\* C6 as stated: for every integer max_variations the returned list starts
\* with base_query and has at most max_variations entries.
C6_AnyMaxVariations ==
    gen_pc = "generated" =>
        /\ Len(gen_out) >= 1
        /\ gen_out[1] = base_query
        /\ Len(gen_out) <= max_variations

\* C6 amended: for every positive max_variations the returned list starts
\* with base_query and has at most max_variations entries.
C6_PositiveMaxVariations ==
    (gen_pc = "generated" /\ max_variations >= 1) =>
        /\ Len(gen_out) >= 1
        /\ gen_out[1] = base_query
        /\ Len(gen_out) <= max_variations

\* a run in which the cap cut the list
C6_Witness ==
    /\ gen_pc = "generated"
    /\ max_variations >= 1
    /\ Len(gen_out) = max_variations
    /\ Cardinality(FirstOccurrences(RawVariations)) > max_variations

\* C7: the returned list holds no two entries equal after lowercasing and
\* trimming; it consists of the first occurrences, unchanged and in order.
C7_CaseInsensitiveDedup ==
    gen_pc = "generated" =>
        LET raw == RawVariations
            firsts == FirstOccurrences(raw)
            keys == [n \in 1..Len(gen_out) |-> VariationKey(gen_out[n])]
        IN  /\ \A m, n \in 1..Len(gen_out) : m # n => keys[m] # keys[n]
            /\ Len(gen_out) <= Cardinality(firsts)
            /\ \A n \in 1..Len(gen_out) : gen_out[n] = raw[NthOf(firsts, n)]

\* a run in which two entries differing in case and in surrounding blanks
\* collided and the list went on
C7_Witness ==
    /\ gen_pc = "generated"
    /\ LET raw == RawVariations
       IN  \E j, k \in 1..Len(raw) :
              /\ j < k
              /\ lower(raw[j]) # lower(raw[k])
              /\ strip(raw[j]) # strip(raw[k])
              /\ VariationKey(raw[j]) = VariationKey(raw[k])
              /\ Len(gen_out) >= k

\* the entries a category contributes for base_query
CategoryEntries(terms) ==
    LET location == _extract_location(base_query)
    IN  { terms[k] \o location : k \in 1..Len(terms) }

GeneralEntries ==
    { base_query \o <<"s">> }
    \cup { base_query \o <<" ">> \o business_suffixes[k] : k \in 1..Len(business_suffixes) }

HasKeyword(keywords) ==
    \E k \in 1..Len(keywords) : contains(keywords[k], lower(base_query))

\* C8: one category is picked in the order textile > restaurant > retail >
\* general; every entry after the first comes from that category's terms.
C8_ClassificationPriority ==
    gen_pc = "generated" =>
        LET allowed ==
                IF HasKeyword(textile_keywords) THEN CategoryEntries(textile_mill_terms)
                ELSE IF HasKeyword(restaurant_keywords) THEN CategoryEntries(restaurant_terms)
                ELSE IF HasKeyword(retail_keywords) THEN CategoryEntries(retail_terms)
                ELSE GeneralEntries
        IN  \A n \in 2..Len(gen_out) : gen_out[n] \in allowed

\* a query with a textile and a restaurant keyword, expanded
C8_Witness ==
    /\ gen_pc = "generated"
    /\ HasKeyword(textile_keywords)
    /\ HasKeyword(restaurant_keywords)
    /\ Len(gen_out) >= 2

\* the words of base_query that the capitalized-word rule accepts
CapitalizedCandidates ==
    LET ws == split(base_query)
    IN  { k \in 1..Len(ws) :
            /\ Len(ws[k]) > 2
            /\ isupper(ws[k][1])
            /\ lower(ws[k]) \notin Range(business_words) }

NoLocationIndicator ==
    \A k \in 1..Len(location_keywords) : ~contains(location_keywords[k], lower(base_query))

\* C10 as stated: with no location indicator, the first accepted capitalized
\* word is returned in title case after one space, else the empty string.
C10_TitleCasedWord ==
    (gen_pc = "located" /\ NoLocationIndicator) =>
        gen_location =
            IF CapitalizedCandidates = {} THEN <<>>
            ELSE <<" ">> \o title(split(base_query)[NthOf(CapitalizedCandidates, 1)])

\* C10 amended: with no location indicator, the first accepted capitalized
\* word is returned as written after one space, else the empty string.
C10_WordAsWritten ==
    /\ (gen_pc = "located" /\ NoLocationIndicator) =>
          gen_location =
              IF CapitalizedCandidates = {} THEN <<>>
              ELSE <<" ">> \o split(base_query)[NthOf(CapitalizedCandidates, 1)]
    /\ (gen_pc = "located" /\ base_query = <<"s","p","i","n","n","i","n","g"," ","m","i","l","l"," ","C","h","i","c","a","g","o">>) =>
          gen_location = <<" ","C","h","i","c","a","g","o">>
    /\ (gen_pc = "located" /\ base_query = <<"t","e","x","t","i","l","e"," ","b","u","s","i","n","e","s","s">>) =>
          gen_location = <<>>

\* a capitalized business word is skipped and a later word, not in title
\* case, is returned
C10_Witness ==
    /\ gen_pc = "located"
    /\ NoLocationIndicator
    /\ CapitalizedCandidates # {}
    /\ NthOf(CapitalizedCandidates, 1) > 1
    /\ gen_location # title(gen_location)

\* the indicator occurs in the lowercased query as a word (or run of words)
OccursAsWord(kw) ==
    LET ws == split(lower(base_query))
        ks == split(kw)
    IN  \E k \in 0..(Len(ws) - Len(ks)) : SubSeq(ws, k + 1, k + Len(ks)) = ks

IndicatorLocations ==
    { <<" ">> \o title(location_keywords[k]) : k \in 1..Len(location_keywords) }

\* C11: a query holding a location indicator as a word yields that indicator,
\* title-cased after one space; a query holding none as a word never yields
\* an indicator.
C11_IndicatorAsWord ==
    gen_pc = "located" =>
        LET present == { k \in 1..Len(location_keywords) : OccursAsWord(location_keywords[k]) }
        IN  IF present # {}
            THEN \E k \in present : gen_location = <<" ">> \o title(location_keywords[k])
            ELSE gen_location \notin IndicatorLocations

\* C12: a query of the general category yields the query, its plural unless
\* it ends in "s", then the query with business, company, shop, service and
\* center, cut to max_variations; "consultant" yields the six documented.
C12_GeneralVariations ==
    LET q == base_query
        expected ==
            << q >>
            \o (IF q # <<>> /\ q[Len(q)] = "s" THEN <<>> ELSE << q \o <<"s">> >>)
            \o << q \o <<" ","b","u","s","i","n","e","s","s">>,
                  q \o <<" ","c","o","m","p","a","n","y">>,
                  q \o <<" ","s","h","o","p">>,
                  q \o <<" ","s","e","r","v","i","c","e">>,
                  q \o <<" ","c","e","n","t","e","r">> >>
        general == /\ ~HasKeyword(textile_keywords)
                   /\ ~HasKeyword(restaurant_keywords)
                   /\ ~HasKeyword(retail_keywords)
    IN  /\ (gen_pc = "generated" /\ general /\ max_variations >= 0) =>
              gen_out = SubSeq(expected, 1,
                               IF max_variations < Len(expected)
                               THEN max_variations ELSE Len(expected))
        /\ (gen_pc = "generated" /\ q = <<"c","o","n","s","u","l","t","a","n","t">>
                /\ max_variations = DefaultMaxVariations) =>
              gen_out = << <<"c","o","n","s","u","l","t","a","n","t">>,
                           <<"c","o","n","s","u","l","t","a","n","t","s">>,
                           <<"c","o","n","s","u","l","t","a","n","t"," ","b","u","s","i","n","e","s","s">>,
                           <<"c","o","n","s","u","l","t","a","n","t"," ","c","o","m","p","a","n","y">>,
                           <<"c","o","n","s","u","l","t","a","n","t"," ","s","h","o","p">>,
                           <<"c","o","n","s","u","l","t","a","n","t"," ","s","e","r","v","i","c","e">> >>

\* "consultant" expanded with the default maximum
C12_Witness ==
    /\ gen_pc = "generated"
    /\ base_query = <<"c","o","n","s","u","l","t","a","n","t">>
    /\ max_variations = DefaultMaxVariations
    /\ Len(gen_out) = DefaultMaxVariations

----------------------------------------------------------------------------
(* Properties of pacing, tokens and the simple search, checked under Spec *)

\* the result count the menu of main.py promises for choice 1
AdvertisedSimpleResults == 60

\* C17: a simple search (choice 1, search_places) returns at most 60 results.
C17_SimpleSearchAtMostSixty ==
    (mode = "simple" /\ pc = "done") => Len(returned) <= AdvertisedSimpleResults

\* C18: the aggregator delays only when the cap is not reached and a further
\* variation follows, and once the merged count has reached MAX_RESULTS it
\* issues no request, starts no variation and takes no delay.
C18_NoSearchAfterCap ==
    /\ [](pc = "swv_sleep" =>
            /\ i < Len(variations)
            /\ Len(swv_all_results) < MAX_RESULTS)
    /\ [][(mode = "enhanced" /\ Len(swv_all_results) >= MAX_RESULTS) =>
            /\ requests' = requests
            /\ queried' = queried
            /\ i' = i
            /\ pc' \in {"swv_ret", "done"}]_vars

\* the cap was reached after a delay and before the last variation
C18_Witness ==
    /\ mode = "enhanced"
    /\ pc = "done"
    /\ i >= 2
    /\ i < Len(variations)
    /\ Len(swv_all_results) >= MAX_RESULTS
    /\ Len(queried) = i

\* C19: every 2-unit delay of a paginated search is followed by another page
\* request of that search: none after its last request or at the cap.
C19_DelayOnlyBeforeRequest ==
    pc \in {"sp_sleep", "sps_sleep"} =>
        /\ page_count < ActiveMaxPages
        /\ Len(all_results) < ActiveCap

\* C20: the first request of a search carries no page token, each later one
\* the token the upstream returned with the page before, and a successful
\* response without a token (or with an empty one) ends the requests.
C20_TokenChaining ==
    /\ Len(requests) >= 1 => requests[1] = <<>>
    /\ \A k \in 2..Len(requests) : requests[k] = << TokenOfPage[k - 1] >>
    /\ (Len(requests) >= 1 /\ last_status = "ok" /\ ~truthy(next_page_token)) =>
          pc \notin {"sp_loop", "sp_sleep", "sps_loop", "sps_sleep"}

\* three chained requests, the last answered with an empty token
C20_Witness ==
    /\ Len(requests) = 3
    /\ requests[3] = << TokenOfPage[2] >>
    /\ last_status = "ok"
    /\ next_page_token = << "" >>
    /\ pc \in {"sp_ret", "sps_ret"}

----------------------------------------------------------------------------
(* Properties of the interactive loop and the result files, checked under  *)
(* SpecMain                                                                *)

\* C13 as stated: whatever step raises, the raise is caught and reported and
\* the loop is back at the keyword prompt; the loop ends on a quit word only.
C13_EveryRaiseCaught ==
    /\ raised # <<>> =>
          /\ main_pc = "keyword_prompt"
          /\ report \in {"cancelled", "error"}
    /\ main_pc \in {"exited", "aborted"} =>
          /\ raised = <<>>
          /\ lower(keyword) \in QuitWords

\* C13: a raise at the mode prompt, in the search or in the file write is
\* caught and reported and the loop is back at the keyword prompt; a raise at
\* the keyword prompt ends the program; the loop ends in no other way than
\* that or a quit word.
C13_RaiseCaughtInsideTry ==
    /\ (raised # <<>> /\ raised[2] \in {"mode_prompt", "search", "save"}) =>
          /\ main_pc = "keyword_prompt"
          /\ report = IF raised[1] = "KeyboardInterrupt" THEN "cancelled" ELSE "error"
    /\ (raised # <<>> /\ raised[2] = "keyword_prompt") => main_pc = "aborted"
    /\ main_pc = "exited" => (raised = <<>> /\ lower(keyword) \in QuitWords)
    /\ main_pc = "aborted" => (raised # <<>> /\ raised[2] = "keyword_prompt")

\* an interrupt of the file write was reported and the loop prompts again
C13_Witness ==
    /\ raised = << "KeyboardInterrupt", "save" >>
    /\ main_pc = "keyword_prompt"
    /\ report = "cancelled"

\* C14: a blank keyword and an invalid mode choice are prompted for again and
\* start no search, write no file and report no error; a search starts only
\* for a non-blank keyword that is no quit word and a choice of "1" or "2";
\* a quit word in any letter case ends the loop without a search.
C14_InvalidInputReprompted ==
    /\ [](\A k \in 1..Len(last_search) :
            LET call == last_search[k]
            IN  /\ call.keyword # <<>>
                /\ call.keyword = strip(call.keyword)
                /\ lower(call.keyword) \notin QuitWords
                /\ call.choice \in { <<"1">>, <<"2">> }
                /\ call.method = IF call.choice = <<"1">> THEN "search_places"
                                 ELSE "search_with_variations")
    /\ [][(main_pc = "keyword_prompt" /\ now' = now /\ raised' = <<>>
             /\ strip(line') = <<>>) =>
            /\ main_pc' = "keyword_prompt"
            /\ report' = "invalid_keyword"
            /\ UNCHANGED << last_search, save_log, files >>]_vars
    /\ [][(main_pc = "mode_prompt" /\ now' = now /\ raised' = <<>>
             /\ strip(line') \notin { <<"1">>, <<"2">> }) =>
            /\ main_pc' = "mode_prompt"
            /\ report' = "invalid_choice"
            /\ UNCHANGED << last_search, save_log, files >>]_vars
    /\ [][(main_pc = "keyword_prompt" /\ now' = now /\ raised' = <<>>
             /\ lower(strip(line')) \in QuitWords) =>
            /\ main_pc' = "exited"
            /\ UNCHANGED << last_search, save_log, files >>]_vars

\* an invalid choice is asked again after an earlier search of the session
C14_Witness ==
    /\ main_pc = "mode_prompt"
    /\ report = "invalid_choice"
    /\ strip(line) \notin { <<"1">>, <<"2">> }
    /\ last_search # <<>>

\* C15: a failed open or write makes save_results_to_file return None and
\* raise nothing, a completed write makes it return the path; after a failure
\* the loop reports it and prompts for the next keyword, with no second try.
C15_SaveFailsSoft ==
    /\ [](\A k \in 1..Len(save_log) :
            LET call == save_log[k]
            IN  /\ call.outcome \in {"open_failed", "write_failed"} => call.returned = <<>>
                /\ call.outcome = "written" => call.returned = << call.path >>)
    /\ [][(Len(save_log') > Len(save_log)
             /\ save_log'[Len(save_log')].outcome \in {"open_failed", "write_failed"}) =>
            /\ Len(save_log') = Len(save_log) + 1
            /\ raised' = <<>>
            /\ file_path' = <<>>
            /\ report' = "save_failed"
            /\ main_pc' = "keyword_prompt"]_vars

\* a write failed half-way and the loop prompts again
C15_Witness ==
    /\ save_log # <<>>
    /\ save_log[Len(save_log)].outcome = "write_failed"
    /\ file_path = <<>>
    /\ report = "save_failed"
    /\ main_pc = "keyword_prompt"

\* the saves that completed
WrittenSaves == { k \in 1..Len(save_log) : save_log[k].outcome = "written" }

\* C16 as stated: any two completed saves of a session wrote two files, and
\* the earlier file still holds what its save wrote.
C16_OwnFilePerSearch ==
    \A a, b \in WrittenSaves :
        a < b =>
            /\ save_log[a].path # save_log[b].path
            /\ save_log[a].path \in DOMAIN files
            /\ files[save_log[a].path]
                   = file_content(save_log[a].keyword, save_log[a].found, TRUE)

\* C16: two completed saves wrote the same file exactly when their keywords
\* sanitise alike and their timestamps agree to the second; a completed save
\* whose path no later save opened still holds what it wrote.
C16_OverwriteOnlySameStamp ==
    /\ \A a, b \in WrittenSaves :
          a < b =>
            ( save_log[a].path = save_log[b].path
              <=> /\ safe_keyword(save_log[a].keyword) = safe_keyword(save_log[b].keyword)
                  /\ strftime(save_log[a].at) = strftime(save_log[b].at) )
    /\ \A a \in WrittenSaves :
          (\A b \in (a + 1)..Len(save_log) :
              save_log[b].path = save_log[a].path => save_log[b].outcome = "open_failed")
          => /\ save_log[a].path \in DOMAIN files
             /\ files[save_log[a].path]
                    = file_content(save_log[a].keyword, save_log[a].found, TRUE)

\* two searches of keywords that sanitise alike, saved a second apart, each
\* in its own file
C16_Witness ==
    /\ Len(save_log) = 2
    /\ WrittenSaves = {1, 2}
    /\ save_log[1].keyword # save_log[2].keyword
    /\ safe_keyword(save_log[1].keyword) = safe_keyword(save_log[2].keyword)
    /\ save_log[1].path # save_log[2].path
    /\ DOMAIN files = { save_log[1].path, save_log[2].path }

----------------------------------------------------------------------------
(* Properties of add_custom_industry, checked under SpecCustom *)

\* C21: after add_custom_industry, whatever the industry name, a call of
\* generate_search_variations returns what the same call returned before.
C21_CustomIndustryNotIntegrated ==
    gen_pc = "regenerated" => gen_out = gen_before[1]

----------------------------------------------------------------------------
(* Further properties of the variation generator, checked under SpecGen *)

\* C22: for a query in which no location is found, the textile, restaurant
\* and retail generators return an empty list.
C22_EmptyWithoutLocation ==
    (gen_pc = "generated" /\ _extract_location(base_query) = <<>>) =>
        /\ _generate_textile_variations(base_query) = <<>>
        /\ _generate_restaurant_variations(base_query) = <<>>
        /\ _generate_retail_variations(base_query) = <<>>

\* C23: of the indicators that occur in the query, the one that stands first
\* in the indicator list is returned; " Industrial Area" and
\* " Business District" are never returned.
C23_FirstInListWins ==
    gen_pc = "located" =>
        LET query_lower == strip(lower(base_query))
            present == { k \in 1..Len(location_keywords) :
                           contains(location_keywords[k], query_lower) }
        IN  /\ present # {} =>
                  \E k \in present :
                      /\ \A j \in present : k <= j
                      /\ gen_location = <<" ">> \o title(location_keywords[k])
            /\ gen_location \notin { <<" ","I","n","d","u","s","t","r","i","a","l"," ","A","r","e","a">>, <<" ","B","u","s","i","n","e","s","s"," ","D","i","s","t","r","i","c","t">> }

\* "plaza" stands first in the query, "area" first in the list
C23_Witness ==
    /\ gen_pc = "located"
    /\ base_query = <<"p","l","a","z","a"," ","i","n","d","u","s","t","r","i","a","l"," ","a","r","e","a">>
    /\ gen_location = <<" ","A","r","e","a">>

====
